---- MODULE Spec2Model ----
(***************************************************************************)
(* Model of pandas/core/internals/concat.py: concatenation of block        *)
(* managers (concatenate_managers, the concat plan, join units, dtype      *)
(* unification and value assembly).                                        *)
(*                                                                         *)
(* A dtype is a string.  An array element is a pair <<tag, n>>; converting *)
(* an element to another dtype changes its tag the way the cast does, so   *)
(* that True cast to int64 (<<"int", 1>>) differs from True kept in an     *)
(* object array (<<"bool", 1>>).  A block is a record                      *)
(*   [dtype, data, mgr_locs, base, obj]                                    *)
(* where data is the sequence of the block's columns (each a sequence of   *)
(* row elements), base names the storage the values live in and obj the    *)
(* identity of the block object.                                           *)
(***************************************************************************)
EXTENDS Integers, Sequences, FiniteSets, TLC

VARIABLES
    mgrs,         \* the source managers, as they are now
    src0,         \* the source managers as they were when the call started
    indexers,     \* per source manager, its {axis: indexer} mapping
    nout,         \* number of items of the output axis 0 (plan path)
    concat_axis,  \* the concat_axis argument
    copy,         \* the copy argument
    pc,           \* "call" before the operation, "done" after it
    result,       \* what concatenate_managers returned or raised
    units,        \* a group of join units (unit-level operations)
    na_in,        \* the (dtype, has_none_blocks) argument of _dtype_to_na_value
    ures          \* results of the unit-level operations

vars == <<mgrs, src0, indexers, nout, concat_axis, copy, pc, result, units, na_in, ures>>

----------------------------------------------------------------------------
(* Bounds *)

MaxMgrs == 2      \* source managers per call: 0..MaxMgrs
MaxItems == 2     \* items (columns) per manager and of the output
MaxTotal == 4     \* items of all the source managers of a call together
MaxUnits == 2     \* join units per group in the unit-level specification
MgrRows == 1      \* rows of every source manager

----------------------------------------------------------------------------
(* Elements and dtypes *)

NaN == <<"nan", 0>>
None == <<"none", 0>>
NaT == <<"nat", 0>>
DtNaT == <<"nat", 1>>
TdNaT == <<"nat", 2>>
NA == <<"na", 0>>
VoidElem == <<"void", 0>>

isna(e) == e[1] \in {"nan", "none", "nat", "na"}

ExtensionDtypes == {"Int64", "Float64", "Sparse[float64]", "Sparse[object]"}

IsExtensionDtype(d) == d \in ExtensionDtypes

IsSparseDtype(d) == d \in {"Sparse[float64]", "Sparse[object]"}

Kind(d) ==
    CASE d \in {"int64", "int32", "Int64"} -> "i"
      [] d = "uint64" -> "u"
      [] d = "bool" -> "b"
      [] d \in {"float64", "Float64", "Sparse[float64]"} -> "f"
      [] d \in {"object", "Sparse[object]"} -> "O"
      [] d = "datetime64" -> "M"
      [] d = "timedelta64" -> "m"
      [] d = "complex128" -> "c"
      [] d = "void" -> "V"
      [] OTHER -> "U"

is_1d_only_ea_dtype(d) == IsExtensionDtype(d)

needs_i8_conversion(d) == Kind(d) \in {"m", "M"}

ExtNaValue(d) == IF IsSparseDtype(d) THEN NaN ELSE NA

----------------------------------------------------------------------------
(* Blocks *)

BlockClass(d) ==
    IF IsExtensionDtype(d) THEN "ExtensionBlock"
    ELSE IF Kind(d) \in {"m", "M"} THEN "DatetimeLikeBlock"
    ELSE IF Kind(d) \in {"f", "c", "i", "u", "b"} THEN "NumericBlock"
    ELSE "ObjectBlock"

is_extension(blk) == IsExtensionDtype(blk.dtype)

can_hold_na(blk) ==
    IF IsExtensionDtype(blk.dtype) THEN TRUE
    ELSE Kind(blk.dtype) \notin {"i", "u", "b"}

can_consolidate(blk) == ~IsExtensionDtype(blk.dtype)

is_bool(blk) == blk.dtype = "bool"

fill_value(blk) ==
    IF IsExtensionDtype(blk.dtype) THEN ExtNaValue(blk.dtype)
    ELSE IF Kind(blk.dtype) \in {"m", "M"} THEN NaT
    ELSE NaN

NCols(blk) == Len(blk.data)

NRows(blk) == Len(blk.data[1])

Size(blk) == NCols(blk) * NRows(blk)

NewBase == <<"new">>

NewObj == <<"new">>

----------------------------------------------------------------------------
(* Arrays: [dtype, data, base, view].  base is the storage the elements    *)
(* live in; view says that the array object is a view of another array.    *)

Values(blk) == [dtype |-> blk.dtype, data |-> blk.data, base |-> blk.base, view |-> FALSE]

View(arr) == [arr EXCEPT !.view = TRUE]

Copy(arr) == [arr EXCEPT !.base = NewBase, !.view = FALSE]

ArrSize(arr) == Len(arr.data) * Len(arr.data[1])

make_na_array(dtype, ncols, nrows, fill) ==
    [dtype |-> dtype,
     data |-> [c \in 1..ncols |-> [r \in 1..nrows |-> fill]],
     base |-> NewBase,
     view |-> FALSE]

RECURSIVE Cat(_)
Cat(ss) == IF ss = <<>> THEN <<>> ELSE Head(ss) \o Cat(Tail(ss))

Range(s) == {s[i] : i \in 1..Len(s)}

----------------------------------------------------------------------------
(* Type promotion and casting *)

\* numpy's promotion of a non-empty set of numpy dtypes
NpPromote(S) ==
    IF Cardinality(S) = 1 THEN CHOOSE d \in S : TRUE
    ELSE IF \E d \in S : Kind(d) \notin {"i", "u", "b", "f"} THEN "object"
    ELSE IF "float64" \in S THEN "float64"
    ELSE LET T == S \ {"bool"}
         IN IF Cardinality(T) = 1 THEN CHOOSE d \in T : TRUE
            ELSE IF "uint64" \in T THEN "float64"
            ELSE "int64"

\* the numpy dtype behind a dtype (numpy_dtype / subtype of an extension dtype)
NumpyDtypeOf(d) ==
    CASE d = "Int64" -> "int64"
      [] d = "Float64" -> "float64"
      [] d = "Sparse[float64]" -> "float64"
      [] d = "Sparse[object]" -> "object"
      [] OTHER -> d

MaskedDtypes == {"Int64", "Float64"}

\* ExtensionDtype._get_common_dtype, tried for each extension dtype in turn;
\* p is the numpy promotion of the underlying numpy dtypes
ExtCommonFrom(S, p) ==
    IF /\ (S \cap ExtensionDtypes) \subseteq MaskedDtypes
       /\ \A d \in S \ ExtensionDtypes : Kind(d) \in {"i", "u", "b", "f"}
    THEN (IF Kind(p) \in {"i", "u"} THEN "Int64"
          ELSE IF Kind(p) = "f" THEN "Float64"
          ELSE "object")
    ELSE IF S \cap MaskedDtypes = {}
    THEN (IF Kind(p) \in {"i", "u", "b", "f"} THEN "Sparse[float64]"
          ELSE "Sparse[object]")
    ELSE "object"

ExtCommonType(S) == ExtCommonFrom(S, NpPromote({NumpyDtypeOf(d) : d \in S}))

find_common_type(types) ==
    LET S == Range(types)
    IN IF Cardinality(S) = 1 THEN types[1]
       ELSE IF S \cap ExtensionDtypes # {} THEN ExtCommonType(S)
       ELSE IF (\E d \in S : Kind(d) = "b") /\ (\E d \in S : Kind(d) \in {"i", "u", "f", "c"})
       THEN "object"
       ELSE NpPromote(S)

ensure_dtype_can_hold_na(dtype) ==
    IF IsExtensionDtype(dtype) THEN dtype
    ELSE IF Kind(dtype) = "b" THEN "object"
    ELSE IF Kind(dtype) \in {"i", "u"} THEN "float64"
    ELSE dtype

\* the missing value an array of dtype d stores
NaOf(d, e) ==
    IF IsExtensionDtype(d) THEN ExtNaValue(d)
    ELSE IF Kind(d) = "f" THEN NaN
    ELSE IF Kind(d) \in {"m", "M"} THEN NaT
    ELSE e

\* astype of one element to dtype d
CastElem(e, d) ==
    IF Kind(d) = "O" THEN e
    ELSE IF isna(e) THEN NaOf(d, e)
    ELSE IF Kind(d) \in {"i", "u"} /\ e[1] \in {"bool", "int"} THEN <<"int", e[2]>>
    ELSE IF Kind(d) = "f" /\ e[1] \in {"bool", "int", "float"} THEN <<"float", e[2]>>
    ELSE e

\* the arrays stacked along axis 1 (rows appended column by column), cast to d
ConcatData(arrs, d) ==
    [c \in 1..Len(arrs[1].data) |->
        Cat([i \in 1..Len(arrs) |->
            [r \in 1..Len(arrs[i].data[c]) |-> CastElem(arrs[i].data[c][r], d)]])]

ArrDtypes(arrs) == {arrs[i].dtype : i \in 1..Len(arrs)}

ArrKinds(arrs) == {Kind(arrs[i].dtype) : i \in 1..Len(arrs)}

\* arrs stacked into a new array of dtype d
StackAs(arrs, d) ==
    [dtype |-> d, data |-> ConcatData(arrs, d), base |-> NewBase, view |-> FALSE]

np_concatenate(arrs) == StackAs(arrs, NpPromote(ArrDtypes(arrs)))

\* concat_compat: all arrays empty and of kinds numpy would coerce to float
CoerceEmpties(arrs) ==
    /\ \A i \in 1..Len(arrs) : ArrSize(arrs[i]) = 0
    /\ Cardinality(ArrKinds(arrs)) # 1
    /\ ~(ArrKinds(arrs) \subseteq {"i", "u", "f"})
    /\ ~(ArrKinds(arrs) \subseteq {"b", "i", "u"})

\* concat_compat: the dtype the arrays are cast to before they are stacked
ConcatDtype(arrs) ==
    IF Cardinality(ArrDtypes(arrs)) = 1 THEN arrs[1].dtype
    ELSE IF \E t \in ArrDtypes(arrs) : ~IsExtensionDtype(t) /\ Kind(t) \in {"m", "M"}
    THEN "object"
    ELSE IF ArrDtypes(arrs) \cap ExtensionDtypes # {}
    THEN find_common_type([i \in 1..Len(arrs) |-> arrs[i].dtype])
    ELSE IF CoerceEmpties(arrs) THEN "object"
    ELSE NpPromote(ArrDtypes(arrs))

\* concat_compat: bools stacked with numbers end as object (GH#39817)
BoolToObject(arrs, d) ==
    /\ Cardinality(ArrDtypes(arrs)) # 1
    /\ ArrDtypes(arrs) \cap ExtensionDtypes = {}
    /\ ~CoerceEmpties(arrs)
    /\ "b" \in ArrKinds(arrs)
    /\ Kind(d) \in {"i", "u", "f"}

ConcatAs(arrs, d) ==
    [dtype |-> IF BoolToObject(arrs, d) THEN "object" ELSE d,
     data |-> ConcatData(arrs, d),
     base |-> NewBase,
     view |-> FALSE]

concat_compat(arrs) == ConcatAs(arrs, ConcatDtype(arrs))

----------------------------------------------------------------------------
(* JoinUnit: a join unit is its block *)

isna_all(row) == \A k \in 1..Len(row) : isna(row[k])

\* is_na without the SparseDtype test
IsNaNoSparse(blk) ==
    IF Kind(blk.dtype) = "V" THEN TRUE
    ELSE IF ~can_hold_na(blk) THEN FALSE
    ELSE IF Size(blk) = 0 THEN TRUE
    ELSE IF ~isna(blk.data[1][1]) THEN FALSE
    ELSE \A c \in 1..NCols(blk) : isna_all(blk.data[c])

\* is_na with the size test moved in front of the _can_hold_na test
IsNaSizeFirst(blk) ==
    IF Kind(blk.dtype) = "V" THEN TRUE
    ELSE IF Size(blk) = 0 THEN TRUE
    ELSE IF ~can_hold_na(blk) THEN FALSE
    ELSE IF IsSparseDtype(blk.dtype) THEN FALSE
    ELSE IF ~isna(blk.data[1][1]) THEN FALSE
    ELSE \A c \in 1..NCols(blk) : isna_all(blk.data[c])

\* JoinUnit.is_na; values[0] (1-D) and values[0][0] (2-D) are both data[1][1]
is_na(blk) ==
    IF Kind(blk.dtype) = "V" THEN TRUE
    ELSE IF ~can_hold_na(blk) THEN FALSE
    ELSE IF Size(blk) = 0 THEN TRUE
    ELSE IF IsSparseDtype(blk.dtype) THEN FALSE
    ELSE IF ~isna(blk.data[1][1]) THEN FALSE
    ELSE \A c \in 1..NCols(blk) : isna_all(blk.data[c])

is_valid_na_for_dtype(obj, dtype) ==
    IF ~isna(obj) THEN FALSE
    ELSE IF Kind(dtype) = "M" THEN obj # TdNaT
    ELSE IF Kind(dtype) = "m" THEN obj # DtNaT
    ELSE IF Kind(dtype) \in {"i", "u", "f", "c"} THEN obj \notin {NaT, DtNaT, TdNaT}
    ELSE IF Kind(dtype) = "b" THEN obj \in {NaN, None, NA}
    ELSE IF dtype = "object" THEN TRUE
    ELSE obj \notin {DtNaT, TdNaT}

_is_valid_na_for(blk, dtype) ==
    IF ~is_na(blk) THEN FALSE
    ELSE IF Kind(blk.dtype) = "V" THEN TRUE
    ELSE IF blk.dtype = "object"
    THEN \A c \in 1..NCols(blk) : \A r \in 1..NRows(blk) :
            is_valid_na_for_dtype(blk.data[c][r], dtype)
    ELSE IF fill_value(blk) = NaT /\ blk.dtype # dtype THEN FALSE
    ELSE IF fill_value(blk) = NA /\ needs_i8_conversion(dtype) THEN FALSE
    ELSE is_valid_na_for_dtype(fill_value(blk), dtype)

get_reindexed_values(blk, empty_dtype, upcasted_na) ==
    IF upcasted_na = None /\ Kind(blk.dtype) # "V"
    THEN View(Values(blk))
    ELSE IF _is_valid_na_for(blk, empty_dtype)
    THEN make_na_array(empty_dtype, NCols(blk), NRows(blk),
            IF blk.dtype = "object" /\ Size(blk) > 0 /\ blk.data[1][1] = None
            THEN None ELSE upcasted_na)
    ELSE IF ~can_consolidate(blk) THEN Values(blk)
    ELSE IF is_bool(blk)
    THEN View([dtype |-> "object", data |-> blk.data, base |-> NewBase, view |-> FALSE])
    ELSE View(Values(blk))

----------------------------------------------------------------------------
(* Dtype unification *)

NotImplementedError == <<"raise", 0>>

\* _dtype_to_na_value whose boolean branch returns False
DtypeToNaValueBoolFalse(dtype, has_none_blocks) ==
    IF IsExtensionDtype(dtype) THEN ExtNaValue(dtype)
    ELSE IF Kind(dtype) = "M" THEN DtNaT
    ELSE IF Kind(dtype) = "m" THEN TdNaT
    ELSE IF Kind(dtype) \in {"f", "c"} THEN NaN
    ELSE IF Kind(dtype) = "b" THEN <<"bool", 0>>
    ELSE IF Kind(dtype) \in {"i", "u"} THEN (IF ~has_none_blocks THEN None ELSE NaN)
    ELSE IF Kind(dtype) = "O" THEN NaN
    ELSE NotImplementedError

_dtype_to_na_value(dtype, has_none_blocks) ==
    IF IsExtensionDtype(dtype) THEN ExtNaValue(dtype)
    ELSE IF Kind(dtype) = "M" THEN DtNaT
    ELSE IF Kind(dtype) = "m" THEN TdNaT
    ELSE IF Kind(dtype) \in {"f", "c"} THEN NaN
    ELSE IF Kind(dtype) = "b" THEN None
    ELSE IF Kind(dtype) \in {"i", "u"} THEN (IF ~has_none_blocks THEN None ELSE NaN)
    ELSE IF Kind(dtype) = "O" THEN NaN
    ELSE NotImplementedError

HasNoneBlocks(join_units) ==
    \E i \in 1..Len(join_units) : Kind(join_units[i].dtype) = "V"

DtypesOf(join_units) == [i \in 1..Len(join_units) |-> join_units[i].dtype]

NotNa(blk) == ~is_na(blk)

NotProxy(blk) == Kind(blk.dtype) # "V"

\* the dtypes _get_empty_dtype unifies: those of the units that are not
\* all-missing, or of the non-proxy units when every unit is all-missing
PickDtypes(not_na, join_units) ==
    IF Len(not_na) = 0 THEN DtypesOf(SelectSeq(join_units, NotProxy)) ELSE not_na

WidenIf(has_none_blocks, dtype) ==
    IF has_none_blocks THEN ensure_dtype_can_hold_na(dtype) ELSE dtype

\* _get_empty_dtype without the widening for has_none_blocks
GetEmptyDtypeNoWiden(join_units) ==
    IF Len(join_units) = 1 THEN join_units[1].dtype
    ELSE IF Cardinality(Range(DtypesOf(join_units))) = 1 THEN join_units[1].dtype
    ELSE find_common_type(PickDtypes(DtypesOf(SelectSeq(join_units, NotNa)), join_units))

_get_empty_dtype(join_units) ==
    IF Len(join_units) = 1 THEN join_units[1].dtype
    ELSE IF Cardinality(Range(DtypesOf(join_units))) = 1 THEN join_units[1].dtype
    ELSE WidenIf(HasNoneBlocks(join_units),
                 find_common_type(
                    PickDtypes(DtypesOf(SelectSeq(join_units, NotNa)), join_units)))

\* _is_uniform_join_units that lets kinds i, u, b mingle only when the first
\* unit's kind is one of them too
IsUniformBothKinds(join_units) ==
    IF Kind(join_units[1].dtype) = "V" THEN FALSE
    ELSE /\ \A i \in 1..Len(join_units) :
               BlockClass(join_units[i].dtype) = BlockClass(join_units[1].dtype)
         /\ \A i \in 1..Len(join_units) :
               \/ join_units[i].dtype = join_units[1].dtype
               \/ /\ Kind(join_units[i].dtype) \in {"i", "u", "b"}
                  /\ Kind(join_units[1].dtype) \in {"i", "u", "b"}
         /\ \A i \in 1..Len(join_units) :
               ~is_na(join_units[i]) \/ is_extension(join_units[i])
         /\ Len(join_units) > 1

_is_uniform_join_units(join_units) ==
    LET first == join_units[1]
    IN IF Kind(first.dtype) = "V" THEN FALSE
       ELSE /\ \A i \in 1..Len(join_units) :
                  BlockClass(join_units[i].dtype) = BlockClass(first.dtype)
            /\ \A i \in 1..Len(join_units) :
                  \/ join_units[i].dtype = first.dtype
                  \/ Kind(join_units[i].dtype) \in {"i", "u", "b"}
            /\ \A i \in 1..Len(join_units) :
                  ~is_na(join_units[i]) \/ is_extension(join_units[i])
            /\ Len(join_units) > 1

----------------------------------------------------------------------------
(* Value assembly.  A result is [raised, values]; values is an array when  *)
(* raised is FALSE.                                                        *)

NoValues == [dtype |-> "none", data |-> <<>>, base |-> NewBase, view |-> FALSE]

Raised == [raised |-> TRUE, values |-> NoValues]

Returned(arr) == [raised |-> FALSE, values |-> arr]

\* to_concat of _concatenate_join_units: every unit's get_reindexed_values
\* (empty when _dtype_to_na_value raised)
ToConcat(join_units, empty_dtype, upcasted_na) ==
    IF upcasted_na = NotImplementedError THEN <<>>
    ELSE [i \in 1..Len(join_units) |->
            get_reindexed_values(join_units[i], empty_dtype, upcasted_na)]

\* the end of _concatenate_join_units, once the values to stack are known
ConcatValues(to_concat, cp) ==
    IF Len(to_concat) = 1
    THEN Returned(IF cp /\ (to_concat[1].view \/ IsExtensionDtype(to_concat[1].dtype))
                  THEN Copy(to_concat[1]) ELSE to_concat[1])
    ELSE Returned(concat_compat(to_concat))

ConcatWithFill(join_units, cp, empty_dtype, upcasted_na) ==
    IF upcasted_na = NotImplementedError THEN Raised
    ELSE ConcatValues([i \in 1..Len(join_units) |->
                        get_reindexed_values(join_units[i], empty_dtype, upcasted_na)], cp)

ConcatWithDtype(join_units, cp, empty_dtype) ==
    ConcatWithFill(join_units, cp, empty_dtype,
                   _dtype_to_na_value(empty_dtype, HasNoneBlocks(join_units)))

_concatenate_join_units(join_units, cp) ==
    ConcatWithDtype(join_units, cp, _get_empty_dtype(join_units))

UniformConcat(first, vals) ==
    IF ~is_extension(first) THEN np_concatenate(vals) ELSE concat_compat(vals)

\* the uniform branch of concatenate_managers: native stacking of the raw values
UniformValues(join_units) ==
    UniformConcat(join_units[1], [i \in 1..Len(join_units) |-> Values(join_units[i])])

UniformResult(blk, values) ==
    [raised |-> FALSE, values |-> values, fastpath |-> blk.dtype = values.dtype]

GenericResult(r) == [raised |-> r.raised, values |-> r.values, fastpath |-> FALSE]

\* the body of the loop over the plan in concatenate_managers:
\* [raised, values, fastpath] for one group
AssembleGroup(join_units, cp) ==
    IF Len(join_units) = 1
    THEN [raised |-> FALSE,
          values |-> IF cp THEN Copy(Values(join_units[1])) ELSE View(Values(join_units[1])),
          fastpath |-> TRUE]
    ELSE IF _is_uniform_join_units(join_units)
    THEN UniformResult(join_units[1], UniformValues(join_units))
    ELSE GenericResult(_concatenate_join_units(join_units, cp))

----------------------------------------------------------------------------
(* Unit-level specification: a group of join units drawn from a catalog of *)
(* one-column blocks, and the pure functions applied to it.                *)

UnitDtypes ==
    {"int64", "int32", "uint64", "bool", "float64", "object", "datetime64",
     "timedelta64", "Int64", "Sparse[float64]", "void"}

\* the dtypes _dtype_to_na_value is tried on
NaDtypes == (UnitDtypes \cup ExtensionDtypes) \cup {"complex128", "str"}

ValidElem(d) ==
    CASE d \in {"int64", "int32", "uint64", "Int64"} -> <<"int", 1>>
      [] d = "bool" -> <<"bool", 1>>
      [] d \in {"float64", "Sparse[float64]"} -> <<"float", 1>>
      [] d = "datetime64" -> <<"dt", 1>>
      [] d = "timedelta64" -> <<"td", 1>>
      [] d = "void" -> VoidElem
      [] OTHER -> <<"str", 1>>

NaElem(d) ==
    CASE d = "Int64" -> NA
      [] d \in {"datetime64", "timedelta64"} -> NaT
      [] OTHER -> NaN

Contents(d) ==
    IF d = "void" \/ (~IsExtensionDtype(d) /\ Kind(d) \in {"i", "u", "b"})
    THEN {"empty", "vals"}
    ELSE {"empty", "vals", "na", "na_val", "val_na"}
            \cup (IF d = "object" THEN {"none"} ELSE {})

ContentColumn(d, c) ==
    CASE c = "empty" -> <<>>
      [] c = "vals" -> <<ValidElem(d)>>
      [] c = "na" -> <<NaElem(d)>>
      [] c = "none" -> <<None>>
      [] c = "na_val" -> <<NaElem(d), ValidElem(d)>>
      [] c = "val_na" -> <<ValidElem(d), NaElem(d)>>

UnitShapes == UNION {{<<d, c>> : c \in Contents(d)} : d \in UnitDtypes}

\* the block of the i-th unit of a group: its own object and storage
UnitBlock(i, shape) ==
    [dtype |-> shape[1],
     data |-> <<ContentColumn(shape[1], shape[2])>>,
     mgr_locs |-> <<0>>,
     base |-> <<"src", i, 1>>,
     obj |-> <<"src", i, 1>>]

NoResult == [stage |-> "none"]

IdleCall ==
    /\ mgrs = <<>>
    /\ src0 = <<>>
    /\ indexers = <<>>
    /\ nout = 0
    /\ concat_axis = 0
    /\ copy = FALSE
    /\ result = NoResult

InitUnits ==
    /\ IdleCall
    /\ ures = NoResult
    /\ \/ /\ pc = "units"
          /\ \E n \in 1..MaxUnits : \E f \in [1..n -> UnitShapes] :
                units = [i \in 1..n |-> UnitBlock(i, f[i])]
          /\ na_in = <<"none", FALSE>>
       \/ /\ pc = "na"
          /\ units = <<>>
          /\ na_in \in NaDtypes \X BOOLEAN

\* JoinUnit.is_na of every unit, _is_uniform_join_units and _get_empty_dtype
Classify ==
    /\ pc = "units"
    /\ ures' = [stage |-> "classified",
                is_na |-> [i \in 1..Len(units) |-> is_na(units[i])],
                uniform |-> _is_uniform_join_units(units),
                empty_dtype |-> _get_empty_dtype(units)]
    /\ pc' = "classified"
    /\ UNCHANGED <<mgrs, src0, indexers, nout, concat_axis, copy, result, units, na_in>>

\* both ways of assembling the group: the uniform branch and _concatenate_join_units
Assemble ==
    /\ pc = "classified"
    /\ \E cp \in BOOLEAN :
        ures' = [stage |-> "assembled",
                 is_na |-> ures.is_na,
                 uniform |-> ures.uniform,
                 empty_dtype |-> ures.empty_dtype,
                 copy |-> cp,
                 fast |-> IF ures.uniform THEN Returned(UniformValues(units)) ELSE Raised,
                 generic |-> _concatenate_join_units(units, cp),
                 to_concat |-> ToConcat(units, ures.empty_dtype,
                                  _dtype_to_na_value(ures.empty_dtype, HasNoneBlocks(units)))]
    /\ pc' = "assembled"
    /\ UNCHANGED <<mgrs, src0, indexers, nout, concat_axis, copy, result, units, na_in>>

DtypeToNaValue ==
    /\ pc = "na"
    /\ ures' = [stage |-> "na", na |-> _dtype_to_na_value(na_in[1], na_in[2])]
    /\ pc' = "na_done"
    /\ UNCHANGED <<mgrs, src0, indexers, nout, concat_axis, copy, result, units, na_in>>

NextUnits == Classify \/ Assemble \/ DtypeToNaValue

SpecUnits == InitUnits /\ [][NextUnits]_vars

----------------------------------------------------------------------------
(* Managers: [blocks, nitems, nrows].  Positions (mgr_locs, indexers) are  *)
(* 0-based as in the source; sequences are indexed from 1.                 *)

RECURSIVE SortedSeq(_)
SortedSeq(S) ==
    IF S = {} THEN <<>>
    ELSE LET m == CHOOSE x \in S : \A y \in S : x <= y
         IN <<m>> \o SortedSeq(S \ {m})

\* mgr.blknos: the block (1-based) that holds each item
blknos(mgr) ==
    [p \in 1..mgr.nitems |->
        CHOOSE b \in 1..Len(mgr.blocks) : (p - 1) \in Range(mgr.blocks[b].mgr_locs)]

BlkLocsOf(mgr, nos) ==
    [p \in 1..mgr.nitems |->
        (CHOOSE c \in 1..Len(mgr.blocks[nos[p]].mgr_locs) :
            mgr.blocks[nos[p]].mgr_locs[c] = p - 1) - 1]

\* mgr.blklocs: the position (0-based) of each item inside its block
blklocs(mgr) == BlkLocsOf(mgr, blknos(mgr))

IsSliceStep1(locs) ==
    /\ Len(locs) > 0
    /\ \A t \in 1..(Len(locs) - 1) : locs[t + 1] = locs[t] + 1

\* Block.getitem_block with an indexer of 0-based positions inside the block:
\* a slice gives a view of the same storage, an index array a copy
getitem_block(blk, slc) ==
    [dtype |-> blk.dtype,
     data |-> [t \in 1..Len(slc) |-> blk.data[slc[t] + 1]],
     mgr_locs |-> [t \in 1..Len(slc) |-> blk.mgr_locs[slc[t] + 1]],
     base |-> IF IsSliceStep1(slc) THEN blk.base ELSE NewBase,
     obj |-> NewObj]

\* the output positions (0-based) that take an item of blk
TakenLocs(blk, idx) ==
    SortedSeq({p \in 0..(Len(idx) - 1) : idx[p + 1] \in Range(blk.mgr_locs)})

\* the output positions that take no source item
MissingLocs(idx) == SortedSeq({p \in 0..(Len(idx) - 1) : idx[p + 1] = -1})

\* a source block moved to the output positions locs: same storage
MovedBlock(blk, idx, locs) ==
    [dtype |-> blk.dtype,
     data |-> [t \in 1..Len(locs) |->
                 blk.data[CHOOSE c \in 1..Len(blk.mgr_locs) :
                             blk.mgr_locs[c] = idx[locs[t] + 1]]],
     mgr_locs |-> locs,
     base |-> blk.base,
     obj |-> NewObj]

HasLocs(blk) == Len(blk.mgr_locs) > 0

KeptBlocks(mgr, idx) ==
    SelectSeq([b \in 1..Len(mgr.blocks) |->
                  MovedBlock(mgr.blocks[b], idx, TakenLocs(mgr.blocks[b], idx))],
              HasLocs)

\* BlockManager._make_na_block(use_na_proxy=True): a block of dtype void
ProxyBlock(missing, nrows) ==
    [dtype |-> "void",
     data |-> [t \in 1..Len(missing) |-> [r \in 1..nrows |-> VoidElem]],
     mgr_locs |-> missing,
     base |-> NewBase,
     obj |-> NewObj]

WithProxy(kept, missing, nrows) ==
    IF Len(missing) > 0 THEN kept \o <<ProxyBlock(missing, nrows)>> ELSE kept

SortBlocks(all, firsts) ==
    [j \in 1..Len(all) |-> all[CHOOSE b \in 1..Len(all) : all[b].mgr_locs[1] = firsts[j]]]

\* the blocks ordered by their first position
OrderByFirst(all) ==
    SortBlocks(all, SortedSeq({all[b].mgr_locs[1] : b \in 1..Len(all)}))

\* BlockManager.reindex_indexer(axis=0, only_slice=True, use_na_proxy=True):
\* every source block keeps its storage and moves to the output positions that
\* take its items; the positions taking -1 form one void (proxy) block
ReindexAxis0(mgr, idx) ==
    [blocks |-> OrderByFirst(WithProxy(KeptBlocks(mgr, idx), MissingLocs(idx), mgr.nrows)),
     nitems |-> Len(idx),
     nrows |-> mgr.nrows]

\* the dtype of a block after take_nd with the row indexer idx
TakeDtype(d, idx) ==
    IF \E r \in 1..Len(idx) : idx[r] = -1 THEN ensure_dtype_can_hold_na(d) ELSE d

\* Block.take_nd along the rows: new arrays; -1 takes the block's fill value
TakeRows(blk, idx) ==
    [dtype |-> TakeDtype(blk.dtype, idx),
     data |-> [c \in 1..NCols(blk) |->
                [r \in 1..Len(idx) |->
                    IF idx[r] = -1 THEN fill_value(blk)
                    ELSE CastElem(blk.data[c][idx[r] + 1], TakeDtype(blk.dtype, idx))]],
     mgr_locs |-> blk.mgr_locs,
     base |-> NewBase,
     obj |-> NewObj]

\* BlockManager.reindex_indexer(axis=1)
ReindexAxis1(mgr, idx) ==
    [blocks |-> [b \in 1..Len(mgr.blocks) |-> TakeRows(mgr.blocks[b], idx)],
     nitems |-> mgr.nitems,
     nrows |-> Len(idx)]

NoIndexer == [axis |-> -1, idx |-> <<>>]

\* one manager through the loop of _maybe_reindex_columns_na_proxy
_maybe_reindex_columns_na_proxy(mgr, indexer) ==
    IF indexer.axis = 0 THEN ReindexAxis0(mgr, indexer.idx)
    ELSE IF indexer.axis = 1 THEN ReindexAxis1(mgr, indexer.idx)
    ELSE mgr

----------------------------------------------------------------------------
(* The concat plan *)

\* the output positions (1-based) at which some manager's blkno changes
RunStarts(blknos_list) ==
    SortedSeq({p \in 1..Len(blknos_list[1]) :
                \/ p = 1
                \/ \E k \in 1..Len(blknos_list) :
                      blknos_list[k][p] # blknos_list[k][p - 1]})

RunStop(starts, j, ncols) == IF j < Len(starts) THEN starts[j + 1] - 1 ELSE ncols

RunsFrom(blknos_list, starts) ==
    [j \in 1..Len(starts) |->
        [blknos |-> [k \in 1..Len(blknos_list) |-> blknos_list[k][starts[j]]],
         bp |-> [t \in 1..(RunStop(starts, j, Len(blknos_list[1])) - starts[j] + 1) |->
                    starts[j] + t - 2]]]

\* libinternals.get_concat_blkno_indexers: the maximal runs of output
\* positions on which every manager's blkno is constant, in increasing order
get_concat_blkno_indexers(blknos_list) == RunsFrom(blknos_list, RunStarts(blknos_list))

\* the slice of blk that sits at the output positions bp
SliceBlock(blk, locs, bp) ==
    getitem_block(blk, [t \in 1..Len(bp) |-> locs[bp[t] + 1]])

_get_block_for_concat_plan(mgr, bp, blkno) ==
    IF /\ Len(bp) = Len(mgr.blocks[blkno].mgr_locs)
       /\ IsSliceStep1(mgr.blocks[blkno].mgr_locs)
    THEN mgr.blocks[blkno]
    ELSE SliceBlock(mgr.blocks[blkno], blklocs(mgr), bp)

\* a plan entry is [bp, units]: the placement and one join unit per manager
PlanEntries(ms, pairs) ==
    [j \in 1..Len(pairs) |->
        [bp |-> pairs[j].bp,
         units |-> [k \in 1..Len(ms) |->
                      _get_block_for_concat_plan(ms[k], pairs[j].bp, pairs[j].blknos[k])]]]

_get_combined_plan(ms) ==
    PlanEntries(ms, get_concat_blkno_indexers([k \in 1..Len(ms) |-> blknos(ms[k])]))

----------------------------------------------------------------------------
(* concatenate_managers.  A result is [status, blocks, plan]; an output    *)
(* block carries src, the (manager, block) it was stacked from on the      *)
(* concat_axis=0 path (<<0, 0>> on the plan path).                         *)

\* the managers after _maybe_reindex_columns_na_proxy
Reindexed(ms_in, inds) ==
    [i \in 1..Len(ms_in) |-> _maybe_reindex_columns_na_proxy(ms_in[i], inds[i])]

RECURSIVE SumItems(_, _)
SumItems(ms, n) == IF n = 0 THEN 0 ELSE ms[n].nitems + SumItems(ms, n - 1)

RECURSIVE SumBlocks(_, _)
SumBlocks(ms, n) == IF n = 0 THEN 0 ELSE Len(ms[n].blocks) + SumBlocks(ms, n - 1)

\* the offset advanced by the number of blocks instead of the number of items
OffsetByBlocks(ms, i) == SumBlocks(ms, i - 1)

\* offset when the loop of _concat_managers_axis0 reaches manager i
AxisOffset(ms, i) == SumItems(ms, i - 1)

\* nb made by copy(deep=False) where copy() is called for
StackBlockShallow(blk, made_copy, cp) ==
    IF made_copy \/ cp THEN [blk EXCEPT !.obj = NewObj]
    ELSE getitem_block(blk, [t \in 1..NCols(blk) |-> t - 1])

\* nb that is the source block itself when no copy is asked for
StackBlockInPlace(blk, made_copy, cp) ==
    IF made_copy THEN [blk EXCEPT !.obj = NewObj]
    ELSE IF cp THEN [blk EXCEPT !.obj = NewObj, !.base = NewBase]
    ELSE blk

\* nb of _concat_managers_axis0, before its placement is shifted
StackBlock(blk, made_copy, cp) ==
    IF made_copy THEN [blk EXCEPT !.obj = NewObj]
    ELSE IF cp THEN [blk EXCEPT !.obj = NewObj, !.base = NewBase]
    ELSE getitem_block(blk, [t \in 1..NCols(blk) |-> t - 1])

\* nb._mgr_locs = nb._mgr_locs.add(offset)
ShiftBlock(nb, offset, src) ==
    [dtype |-> nb.dtype,
     data |-> nb.data,
     mgr_locs |-> [t \in 1..Len(nb.mgr_locs) |-> nb.mgr_locs[t] + offset],
     base |-> nb.base,
     obj |-> nb.obj,
     src |-> src]

\* the loop of _concat_managers_axis0 over the reindexed managers
StackManagers(ms, had_reindexers, cp) ==
    [status |-> "ok",
     blocks |-> Cat([i \in 1..Len(ms) |->
                     [b \in 1..Len(ms[i].blocks) |->
                        ShiftBlock(StackBlock(ms[i].blocks[b], had_reindexers[i], cp),
                                   AxisOffset(ms, i), <<i, b>>)]]),
     plan |-> <<>>]

_concat_managers_axis0(ms_in, inds, cp) ==
    StackManagers(Reindexed(ms_in, inds),
                  [i \in 1..Len(ms_in) |-> inds[i].axis # -1], cp)

\* the block objects that nb._mgr_locs = ... assigned to, applied to the
\* source managers: a source block is changed iff it is one of those objects
ApplyWrites(ms, written) ==
    [i \in 1..Len(ms) |->
        [ms[i] EXCEPT !.blocks =
            [b \in 1..Len(ms[i].blocks) |->
                LET blk == ms[i].blocks[b]
                    hits == {j \in 1..Len(written) : written[j].obj = blk.obj}
                IN IF hits = {} THEN blk
                   ELSE [blk EXCEPT !.mgr_locs = written[CHOOSE j \in hits : TRUE].mgr_locs]]]]

\* the blocks made from the assembled values of every plan entry
PlanResult(concat_plan, got) ==
    IF \E j \in 1..Len(got) : got[j].raised
    THEN [status |-> "NotImplementedError", blocks |-> <<>>, plan |-> concat_plan]
    ELSE [status |-> "ok",
          blocks |-> [j \in 1..Len(got) |->
                       [dtype |-> got[j].values.dtype,
                        data |-> got[j].values.data,
                        mgr_locs |-> concat_plan[j].bp,
                        base |-> got[j].values.base,
                        obj |-> NewObj,
                        src |-> <<0, 0>>]],
          plan |-> concat_plan]

\* the loop of concatenate_managers over the plan
AssemblePlan(concat_plan, cp) ==
    PlanResult(concat_plan,
               [j \in 1..Len(concat_plan) |-> AssembleGroup(concat_plan[j].units, cp)])

\* concatenate_managers when concat_axis # 0
PlanPath(ms_in, inds, cp) ==
    AssemblePlan(_get_combined_plan(Reindexed(ms_in, inds)), cp)

\* mgrs_indexers[0][0] on an empty list
EmptyListError == "IndexError"

concatenate_managers(ms_in, inds, axis, cp) ==
    IF Len(ms_in) = 0 THEN [status |-> EmptyListError, blocks |-> <<>>, plan |-> <<>>]
    ELSE IF axis = 0 THEN _concat_managers_axis0(ms_in, inds, cp)
    ELSE PlanPath(ms_in, inds, cp)

----------------------------------------------------------------------------
(* The call-level specification *)

MgrDtypes == {"int64", "float64"}

\* the first item (1-based) of every dtype of kinds, in increasing order
FirstItems(kinds) ==
    SortedSeq({CHOOSE p \in 1..Len(kinds) :
                    kinds[p] = d /\ \A q \in 1..(p - 1) : kinds[q] # d
               : d \in Range(kinds)})

\* the items (0-based) of dtype d
ItemsOf(kinds, d) == SortedSeq({p - 1 : p \in {q \in 1..Len(kinds) : kinds[q] = d}})

\* the j-th block of manager i: items locs of dtype d, each element its item's number
MkBlock(i, j, d, locs) ==
    [dtype |-> d,
     data |-> [c \in 1..Len(locs) |-> [r \in 1..MgrRows |-> <<ValidElem(d)[1], locs[c] + 1>>]],
     mgr_locs |-> locs,
     base |-> <<"src", i, j>>,
     obj |-> <<"src", i, j>>]

MkBlocks(i, kinds, firsts) ==
    [j \in 1..Len(firsts) |-> MkBlock(i, j, kinds[firsts[j]], ItemsOf(kinds, kinds[firsts[j]]))]

\* a consolidated manager: one block per dtype, blocks ordered by first item
MkMgr(i, kinds) ==
    [blocks |-> MkBlocks(i, kinds, FirstItems(kinds)), nitems |-> Len(kinds), nrows |-> MgrRows]

\* column indexers that place k source items, in order, among n output items
ColumnIndexers(k, n) ==
    {idx \in [1..n -> -1..(k - 1)] :
        /\ \A c \in 0..(k - 1) : \E p \in 1..n : idx[p] = c
        /\ \A p, q \in 1..n : (p < q /\ idx[p] # -1 /\ idx[q] # -1) => idx[p] < idx[q]}

RowIndexers == {[r \in 1..MgrRows |-> r - 1]}

\* the (manager, indexers) pairs a caller may pass: concat_axis is never a
\* key of the indexers, and the managers agree with the output axes
MgrInputs(axis, n) ==
    IF axis = 0
    THEN UNION {{[kinds |-> ks, ind |-> ind] :
                    ks \in [1..k -> MgrDtypes],
                    ind \in {NoIndexer} \cup {[axis |-> 1, idx |-> ix] : ix \in RowIndexers}}
                : k \in 1..MaxItems}
    ELSE UNION {{[kinds |-> ks, ind |-> ind] :
                    ks \in [1..k -> MgrDtypes],
                    ind \in (IF k = n THEN {NoIndexer} ELSE {})
                            \cup {[axis |-> 0, idx |-> ix] : ix \in ColumnIndexers(k, n)}}
                : k \in 1..n}

RECURSIVE TotalItems(_, _)
TotalItems(f, n) == IF n = 0 THEN 0 ELSE Len(f[n].kinds) + TotalItems(f, n - 1)

Init ==
    /\ pc = "call"
    /\ concat_axis \in {0, 1}
    /\ copy \in BOOLEAN
    /\ \E no \in (IF concat_axis = 0 THEN {MaxItems} ELSE 1..MaxItems), n \in 0..MaxMgrs :
         \E f \in [1..n -> MgrInputs(concat_axis, no)] :
            /\ TotalItems(f, n) <= MaxTotal
            /\ mgrs = [i \in 1..n |-> MkMgr(i, f[i].kinds)]
            /\ indexers = [i \in 1..n |-> f[i].ind]
            /\ nout = IF concat_axis = 0 THEN SumItems(mgrs, n) ELSE no
    /\ src0 = mgrs
    /\ result = NoResult
    /\ units = <<>>
    /\ na_in = <<"none", FALSE>>
    /\ ures = NoResult

\* concatenate_managers on an empty mgrs_indexers
ConcatEmpty ==
    /\ pc = "call"
    /\ Len(mgrs) = 0
    /\ result' = concatenate_managers(mgrs, indexers, concat_axis, copy)
    /\ pc' = "done"
    /\ UNCHANGED <<mgrs, src0, indexers, nout, concat_axis, copy, units, na_in, ures>>

\* concatenate_managers with concat_axis = 0: _concat_managers_axis0
ConcatAxis0 ==
    /\ pc = "call"
    /\ Len(mgrs) > 0
    /\ concat_axis = 0
    /\ result' = concatenate_managers(mgrs, indexers, concat_axis, copy)
    /\ mgrs' = ApplyWrites(mgrs, result'.blocks)
    /\ pc' = "done"
    /\ UNCHANGED <<src0, indexers, nout, concat_axis, copy, units, na_in, ures>>

\* concatenate_managers with concat_axis = 1: the plan and its assembly
ConcatPlan ==
    /\ pc = "call"
    /\ Len(mgrs) > 0
    /\ concat_axis = 1
    /\ result' = concatenate_managers(mgrs, indexers, concat_axis, copy)
    /\ pc' = "done"
    /\ UNCHANGED <<mgrs, src0, indexers, nout, concat_axis, copy, units, na_in, ures>>

Next == ConcatEmpty \/ ConcatAxis0 \/ ConcatPlan

Spec == Init /\ [][Next]_vars

----------------------------------------------------------------------------
(* Properties of a call of concatenate_managers (specification Spec) *)

Returned_ok == pc = "done" /\ result.status = "ok"

\* every (block, column) of the returned manager
OutCells ==
    UNION {{<<j, t>> : t \in 1..Len(result.blocks[j].mgr_locs)} : j \in 1..Len(result.blocks)}

\* the source item manager k supplies for output position p (-1: none)
SourceItem(k, p) == IF indexers[k].axis = 0 THEN indexers[k].idx[p + 1] ELSE p

\* column t of unit is item SourceItem(k, p) of source manager k, or a proxy
FromSource(unit, t, k, p) ==
    IF SourceItem(k, p) = -1 THEN unit.dtype = "void"
    ELSE \E b \in 1..Len(src0[k].blocks) : \E q \in 1..Len(src0[k].blocks[b].mgr_locs) :
            /\ src0[k].blocks[b].mgr_locs[q] = SourceItem(k, p)
            /\ unit.dtype = src0[k].blocks[b].dtype
            /\ unit.data[t] = src0[k].blocks[b].data[q]

C1_Coverage ==
    Returned_ok =>
        /\ Cardinality(OutCells) = nout
        /\ \A p \in 0..(nout - 1) :
              Cardinality({c \in OutCells : result.blocks[c[1]].mgr_locs[c[2]] = p}) = 1

C1_PlanOrder ==
    (pc = "done" /\ concat_axis = 1 /\ Len(src0) > 0) =>
        /\ \A j \in 1..Len(result.plan) :
              /\ Len(result.plan[j].bp) > 0
              /\ \A t \in 1..(Len(result.plan[j].bp) - 1) :
                    result.plan[j].bp[t + 1] = result.plan[j].bp[t] + 1
              /\ Len(result.plan[j].units) = Len(src0)
              /\ \A k \in 1..Len(src0) : \A t \in 1..Len(result.plan[j].bp) :
                    FromSource(result.plan[j].units[k], t, k, result.plan[j].bp[t])
        /\ \A j \in 1..(Len(result.plan) - 1) :
              result.plan[j].bp[Len(result.plan[j].bp)] < result.plan[j + 1].bp[1]

C1_StackShift ==
    (Returned_ok /\ concat_axis = 0) =>
        /\ Len(result.blocks) = SumBlocks(src0, Len(src0))
        /\ \A j \in 1..Len(result.blocks) :
              result.blocks[j].mgr_locs =
                  [t \in 1..Len(result.blocks[j].mgr_locs) |->
                      src0[result.blocks[j].src[1]].blocks[result.blocks[j].src[2]].mgr_locs[t]
                        + SumItems(src0, result.blocks[j].src[1] - 1)]
        /\ \A i \in 1..Len(src0) : \A b \in 1..Len(src0[i].blocks) :
              \E j \in 1..Len(result.blocks) : result.blocks[j].src = <<i, b>>

\* C1: the placements of the returned blocks cover the output positions
\* 0..nout-1 exactly once; the plan entries are in increasing position order and
\* each holds one join unit per source manager, in source order; on the stacking
\* path each source block's placement is shifted by the item counts of the
\* managers before it
C1_Placements == C1_Coverage /\ C1_PlanOrder /\ C1_StackShift

\* C1 witness: two managers stacked along axis 0, a block of the second shifted
C1_Witness ==
    /\ Returned_ok
    /\ concat_axis = 0
    /\ Len(src0) = 2
    /\ src0[1].nitems = 2
    /\ \E j \in 1..Len(result.blocks) :
          result.blocks[j].src[1] = 2 /\ result.blocks[j].mgr_locs[1] >= 2

SourceBases ==
    UNION {{src0[i].blocks[b].base : b \in 1..Len(src0[i].blocks)} : i \in 1..Len(src0)}

\* C2: with copy=True no returned block shares its storage with a source block;
\* with copy=False a single-unit group is returned as a view of its unit's
\* values, which are the source's values when the unit is not a proxy
C2_CopyIsIndependent ==
    Returned_ok =>
        /\ copy => \A j \in 1..Len(result.blocks) : result.blocks[j].base \notin SourceBases
        /\ (~copy /\ concat_axis = 1) =>
              \A j \in 1..Len(result.blocks) :
                  Len(result.plan[j].units) = 1 =>
                      /\ result.blocks[j].base = result.plan[j].units[1].base
                      /\ result.blocks[j].data = result.plan[j].units[1].data
                      /\ result.plan[j].units[1].dtype # "void" =>
                            result.blocks[j].base \in SourceBases

\* C2 witness: copy=True on the stacking path, one source without an indexer
\* mapping and one with a mapping
C2_Witness ==
    /\ Returned_ok
    /\ copy
    /\ concat_axis = 0
    /\ Len(src0) = 2
    /\ indexers[1].axis = -1
    /\ indexers[2].axis = 1

\* C4: in the manager returned on the plan path, no block made from a group
\* that holds a proxy unit has the placeholder (void) dtype, whatever the
\* shape of the group
C4_NoVoidOutput ==
    (Returned_ok /\ concat_axis = 1) =>
        \A j \in 1..Len(result.blocks) :
            (\E k \in 1..Len(result.plan[j].units) : result.plan[j].units[k].dtype = "void")
                => result.blocks[j].dtype # "void"

\* C4 witness: one source whose column indexer has a -1; the block returned for
\* that position is the proxy itself, of dtype void
C4_Witness ==
    /\ Returned_ok
    /\ concat_axis = 1
    /\ Len(src0) = 1
    /\ \E j \in 1..Len(result.blocks) :
          /\ Len(result.plan[j].units) = 1
          /\ result.plan[j].units[1].dtype = "void"
          /\ result.blocks[j].dtype = "void"

\* C6: a call with no source managers fails with the condition EmptyInput
C6_EmptyInput ==
    (pc = "done" /\ Len(src0) = 0) => result.status = "EmptyInput"

\* C6 witness: the call with no source managers has ended with IndexError
C6_Witness ==
    /\ pc = "done"
    /\ Len(src0) = 0
    /\ result.status = EmptyListError

\* C7: after the call, returned or failed, every source manager is as it was
\* before it, and every block object the call wrote a placement to is an
\* object created during the call
C7_SourcesUnchanged ==
    pc = "done" =>
        /\ mgrs = src0
        /\ result.status = "ok" =>
              \A j \in 1..Len(result.blocks) :
                  \A i \in 1..Len(src0) : \A b \in 1..Len(src0[i].blocks) :
                      result.blocks[j].obj # src0[i].blocks[b].obj

\* C7 witness: copy=False, second source without an indexer mapping, and the
\* placement written to its block differs from the source block's placement
C7_Witness ==
    /\ Returned_ok
    /\ concat_axis = 0
    /\ ~copy
    /\ Len(src0) = 2
    /\ indexers[2].axis = -1
    /\ \E j \in 1..Len(result.blocks) :
          /\ result.blocks[j].src[1] = 2
          /\ result.blocks[j].mgr_locs # src0[2].blocks[result.blocks[j].src[2]].mgr_locs

----------------------------------------------------------------------------
(* Properties of the unit-level functions (specification SpecUnits) *)

Classified == pc \in {"classified", "assembled"}

UnitIdx == 1..Len(units)

NoWholeNumberNa == {"int64", "int32", "uint64", "bool"}

\* the dtypes _get_empty_dtype unifies, from the recorded is_na flags
UnifiedDtypes ==
    LET pool == IF \A i \in UnitIdx : ures.is_na[i]
                THEN SortedSeq({i \in UnitIdx : units[i].dtype # "void"})
                ELSE SortedSeq({i \in UnitIdx : ~ures.is_na[i]})
    IN [t \in 1..Len(pool) |-> units[pool[t]].dtype]

C3_WithProxy ==
    (/\ Classified
     /\ \E i \in UnitIdx : units[i].dtype = "void"
     /\ \E i \in UnitIdx : units[i].dtype # "void") =>
        /\ ures.empty_dtype = ensure_dtype_can_hold_na(find_common_type(UnifiedDtypes))
        /\ ures.empty_dtype \notin NoWholeNumberNa

C3_Identical ==
    (/\ Classified
     /\ \A i \in UnitIdx : units[i].dtype # "void"
     /\ \A i \in UnitIdx : units[i].dtype = units[1].dtype) =>
        ures.empty_dtype = units[1].dtype

Int32Float64 ==
    /\ Classified
    /\ {units[i].dtype : i \in UnitIdx} = {"int32", "float64"}

\* C3, as amended: a group with a proxy and a non-proxy unit gets the common
\* type of its non-all-missing units (of its non-proxy units when all are
\* all-missing) widened to hold a missing value, never int or bool; a group of
\* one identical type keeps it; {int32, float64} without a proxy gives float64
\* when some float64 unit is not all-missing and int32 otherwise
C3_EmptyDtype ==
    /\ C3_WithProxy
    /\ C3_Identical
    /\ Int32Float64 =>
          ures.empty_dtype =
              IF \E i \in UnitIdx : units[i].dtype = "float64" /\ ~ures.is_na[i]
              THEN "float64" ELSE "int32"

\* C3, as stated: ... and {int32, float64} without a proxy always gives float64
C3_AsStated ==
    /\ C3_WithProxy
    /\ C3_Identical
    /\ Int32Float64 => ures.empty_dtype = "float64"

\* C3 witness: a proxy with an int32 unit, unified to float64
C3_Witness ==
    /\ pc = "classified"
    /\ Len(units) = 2
    /\ units[1].dtype = "void"
    /\ units[2].dtype = "int32"
    /\ ures.empty_dtype = "float64"

\* C5: for every group _is_uniform_join_units accepts, the fast path's result
\* has the dtype and the elements of _concatenate_join_units' result
C5_FastEqualsGeneric ==
    (pc = "assembled" /\ ures.uniform) =>
        /\ ~ures.generic.raised
        /\ ures.fast.values.dtype = ures.generic.values.dtype
        /\ ures.fast.values.data = ures.generic.values.data

\* C5 witness: an int64 unit and a bool unit are accepted as uniform; the fast
\* path gives int64 values, _concatenate_join_units gives object values
C5_Witness ==
    /\ pc = "assembled"
    /\ Len(units) = 2
    /\ units[1].dtype = "int64" /\ units[1].data = <<(<<(<<"int", 1>>)>>)>>
    /\ units[2].dtype = "bool" /\ units[2].data = <<(<<(<<"bool", 1>>)>>)>>
    /\ ures.uniform
    /\ ures.fast.values.dtype = "int64"
    /\ ures.fast.values.data = <<(<<(<<"int", 1>>), (<<"int", 1>>)>>)>>
    /\ ures.generic.values.dtype = "object"
    /\ ures.generic.values.data = <<(<<(<<"int", 1>>), (<<"bool", 1>>)>>)>>

UniformExceptKinds ==
    /\ Len(units) > 1
    /\ \A i \in UnitIdx : units[i].dtype # "void"
    /\ \A i \in UnitIdx : BlockClass(units[i].dtype) = BlockClass(units[1].dtype)
    /\ \A i \in UnitIdx : ~ures.is_na[i] \/ units[i].dtype \in ExtensionDtypes

NaTable(d, has_none_blocks) ==
    CASE d \in {"Int64", "Float64"} -> NA
      [] d \in {"Sparse[float64]", "Sparse[object]"} -> NaN
      [] d = "datetime64" -> DtNaT
      [] d = "timedelta64" -> TdNaT
      [] d \in {"float64", "complex128"} -> NaN
      [] d = "bool" -> None
      [] d \in {"int64", "int32", "uint64"} -> (IF has_none_blocks THEN NaN ELSE None)
      [] d = "object" -> NaN
      [] OTHER -> NotImplementedError

\* C9: _dtype_to_na_value returns the table's fill value for every kind, and
\* fails for any other kind (void included)
C9_NaValueTable ==
    pc = "na_done" => ures.na = NaTable(na_in[1], na_in[2])

\* C9 witness: an integer dtype with a proxy in the group gives NaN
C9_Witness ==
    /\ pc = "na_done"
    /\ na_in = <<"int64", TRUE>>
    /\ ures.na = NaN

\* C10, as amended: is_na is true for every proxy unit and for every
\* zero-element unit whose block can hold a missing value; a zero-element unit
\* of an integer, unsigned or boolean block is not all-missing
C10_EmptyIsNa ==
    Classified =>
        \A i \in UnitIdx :
            /\ units[i].dtype = "void" => ures.is_na[i]
            /\ (Size(units[i]) = 0 /\ units[i].dtype \notin NoWholeNumberNa) => ures.is_na[i]
            /\ (Size(units[i]) = 0 /\ units[i].dtype \in NoWholeNumberNa) => ~ures.is_na[i]

\* C10, as stated: is_na is true for every zero-element unit, whatever its
\* dtype, and for every proxy unit
C10_AsStated ==
    Classified =>
        \A i \in UnitIdx :
            (Size(units[i]) = 0 \/ units[i].dtype = "void") => ures.is_na[i]

\* C10 witness: an empty float64 unit that is all-missing beside an empty
\* int64 unit that is not
C10_Witness ==
    /\ pc = "classified"
    /\ Len(units) = 2
    /\ units[1].dtype = "float64" /\ Size(units[1]) = 0 /\ ures.is_na[1]
    /\ units[2].dtype = "int64" /\ Size(units[2]) = 0 /\ ~ures.is_na[2]

SparseUnits == {i \in UnitIdx : IsSparseDtype(units[i].dtype)}

\* the values of unit i reach the concatenation step as they are
KeepsValues(i) ==
    /\ ures.to_concat[i].dtype = units[i].dtype
    /\ ures.to_concat[i].data = units[i].data
    /\ ures.to_concat[i].base = units[i].base

Reindexed_ok == pc = "assembled" /\ ures.to_concat # <<>>

\* C11, as amended: is_na is false for every sparse unit that holds at least
\* one element, whatever its contents, and get_reindexed_values hands such a
\* unit's own values to the concatenation step; a sparse unit of zero elements
\* is all-missing (is_na is true)
C11_SparseNotNa ==
    /\ Classified =>
          \A i \in SparseUnits : ures.is_na[i] <=> Size(units[i]) = 0
    /\ Reindexed_ok =>
          \A i \in SparseUnits : Size(units[i]) > 0 => KeepsValues(i)

\* C11, as stated: is_na is false for every sparse unit, whatever its contents
\* and size, and get_reindexed_values never replaces a sparse unit's values
C11_AsStated ==
    /\ Classified => \A i \in SparseUnits : ~ures.is_na[i]
    /\ Reindexed_ok => \A i \in SparseUnits : KeepsValues(i)

\* C11 witness: a sparse unit holding only NaN beside a float64 unit with a
\* value; the sparse unit is not all-missing and its values are kept
C11_Witness ==
    /\ pc = "assembled"
    /\ Len(units) = 2
    /\ units[1].dtype = "Sparse[float64]" /\ units[1].data = <<(<<NaN>>)>>
    /\ units[2].dtype = "float64" /\ units[2].data = <<(<<(<<"float", 1>>)>>)>>
    /\ ~ures.is_na[1]
    /\ ures.to_concat # <<>>
    /\ KeepsValues(1)

\* a sparse unit of zero elements that is all-missing and for which a newly
\* made array stands in to_concat
C11_EmptySparseFilled ==
    /\ Reindexed_ok
    /\ \E i \in SparseUnits :
          /\ Size(units[i]) = 0
          /\ ures.is_na[i]
          /\ ures.to_concat[i].base = NewBase

====
